---- MODULE Spec2Model ----
(***************************************************************************)
(* Route handlers of the theaters / movies / comments API over the         *)
(* sample_mflix document store.  Every handler is an async function: it    *)
(* runs synchronously up to its next await, so one step of the model is    *)
(* the code between two awaits.  The store (three collections) is shared   *)
(* by all requests in flight.                                              *)
(***************************************************************************)
EXTENDS Integers, Sequences, FiniteSets, TLC

\* ---- bounds of the model ------------------------------------------------
MaxDocs == 11         \* largest theaters / movies collection drawn by Init
MaxId == 2            \* well-formed identifiers seen on the wire: 1..MaxId
MaxEmbedded == 3      \* longest embedded comments array of a Movie
MaxRequests == 1      \* requests received in one behaviour
MaxClients == 3       \* requests in flight together (SpecConc)

\* ---- program constants --------------------------------------------------
Limit == 10           \* .limit(10) of the list handlers
HexIdLength == 24     \* length of the canonical hexadecimal identifier

VARIABLES theaters, movies, comments, req, served

vars == <<theaters, movies, comments, req, served>>

\* ---- values -------------------------------------------------------------
\* A JSON / BSON value: a tag and a number (strings are numbered; the empty
\* string is Str(0)).
Undef == [t |-> "undef", v |-> 0]
Str(n) == [t |-> "str", v |-> n]
Num(n) == [t |-> "num", v |-> n]
Oid(n) == [t |-> "oid", v |-> n]
DateVal(n) == [t |-> "date", v |-> n]

\* JavaScript truthiness of a value, as `!x` tests it.
Truthy(x) == ~(x.t = "undef" \/ (x.t = "str" /\ x.v = 0) \/ (x.t = "num" /\ x.v = 0))

\* A path parameter is a string: its length, whether all its characters are
\* hexadecimal digits, and which string of that shape it is.
HexStr(n) == [len |-> HexIdLength, hex |-> TRUE, v |-> n]
EmptyStr == [len |-> 0, hex |-> TRUE, v |-> 0]
NonHexStr == [len |-> HexIdLength, hex |-> FALSE, v |-> 1]
Wire == {HexStr(n) : n \in 1..MaxId} \cup {EmptyStr, NonHexStr}

\* ObjectId.isValid on a string: a 24 character hexadecimal string.
IsValid(s) == s.len = HexIdLength /\ s.hex

\* new ObjectId(s) for a valid s.
ObjectId(s) == Oid(s.v)

\* ---- request bodies -----------------------------------------------------
\* kind "malformed": request.json() rejects; "null": the JSON value null;
\* "object": a JSON object with the fields that are not Undef.
MkBody(k, t, u, m) == [kind |-> k, text |-> t, user |-> u, movie_id |-> m]
NoBody == MkBody("malformed", Undef, Undef, Undef)
Bodies ==
  { NoBody,
    MkBody("null", Undef, Undef, Undef),
    MkBody("object", Undef, Undef, Undef),
    MkBody("object", Str(1), Undef, Undef),
    MkBody("object", Undef, Str(1), Undef),
    MkBody("object", Str(0), Undef, Undef),
    MkBody("object", Num(5), Undef, Undef),
    MkBody("object", Str(1), Undef, Str(2)) }

\* ---- responses ----------------------------------------------------------
Absent == "<absent>"
NoData == [kind |-> "none", docs |-> <<>>, modified |-> FALSE,
           idMovie |-> EmptyStr, idComment |-> EmptyStr]
ArrayData(ds) == [NoData EXCEPT !.kind = "array", !.docs = ds]
TheaterData(d) == [NoData EXCEPT !.kind = "theater", !.docs = <<d>>]
CommentsData(ds) == [NoData EXCEPT !.kind = "comments", !.docs = ds]
CommentData(d) == [NoData EXCEPT !.kind = "comment", !.docs = <<d>>]
ModifiedData(m, idM, idC) ==
  [NoData EXCEPT !.kind = "modified", !.modified = m, !.idMovie = idM, !.idComment = idC]

\* The JSON body of a response.
Envelope(st, msg, err, d) == [status |-> st, message |-> msg, error |-> err, data |-> d]
NoResp == [status |-> 0, message |-> Absent, error |-> Absent, data |-> NoData, http |-> 0]

\* ---- handlers -----------------------------------------------------------
ListHandlers == {"TheatersGET", "MoviesGET"}
RefusedHandlers == {"MoviesPOST", "MoviesPUT", "MoviesDELETE"}
TheaterHandlers == {"TheaterGET", "TheaterGET_v2"}
ReadHandlers == {"CommentGET", "CommentGET_v2"}
DeleteHandlers == {"CommentDELETE", "CommentDELETE_v2"}
UpdateHandlers == {"CommentPOST", "CommentPOST_v2", "CommentPUT_A"}
CommentHandlers == ReadHandlers \cup DeleteHandlers \cup UpdateHandlers \cup {"CommentPUT_B"}
Handlers == ListHandlers \cup RefusedHandlers \cup TheaterHandlers
              \cup {"CommentsGET"} \cup CommentHandlers

\* Handlers that pass { status } to NextResponse.json on their error paths;
\* the others always answer with transport status 200.
TransportHandlers ==
  {"TheaterGET_v2", "CommentGET_v2", "CommentPOST_v2", "CommentDELETE_v2", "CommentPUT_B"}

\* NextResponse.json(body) / NextResponse.json(body, { status }).
Json(h, e) ==
  [status |-> e.status, message |-> e.message, error |-> e.error, data |-> e.data,
   http |-> IF h \in TransportHandlers /\ e.status # 200 THEN e.status ELSE 200]

\* message of the catch block of handler h
CatchMessage(h) ==
  CASE h = "TheatersGET" -> "Erreur interne du serveur"
    [] h \in UpdateHandlers -> "Internal server error"
    [] OTHER -> "Internal Server Error"

\* Catch with the exception's message replaced by the fixed message
Catch_Redacted(h, msg) == Json(h, Envelope(500, CatchMessage(h), CatchMessage(h), NoData))

\* catch (error) { return NextResponse.json({ status: 500, message, error: error.message }) }
Catch(h, msg) == Json(h, Envelope(500, CatchMessage(h), msg, NoData))

\* ---- exceptions ---------------------------------------------------------
ConnError == "connect ECONNREFUSED"
OpError == "MongoNetworkTimeoutError"
SyntaxErrorMsg == "Unexpected end of JSON input"
TypeErrorMsg == "Cannot read properties of null (reading 'text')"

\* ---- request records ----------------------------------------------------
Idle == [h |-> "none", idTheater |-> EmptyStr, idMovie |-> EmptyStr, idComment |-> EmptyStr,
         body |-> NoBody, pc |-> "idle", resp |-> NoResp, nresp |-> 0, ops |-> <<>>,
         thrown |-> Absent, fault |-> "none"]

\* The handler returns response x.
Return(q, x) == [q EXCEPT !.pc = "done", !.resp = x, !.nresp = @ + 1]

\* An await rejects with message msg (kind k): control passes to the catch block.
Throw(q, k, msg) == [Return(q, Catch(q.h, msg)) EXCEPT !.thrown = msg, !.fault = k]

\* A store operation is issued.
Issue(q, op) == [q EXCEPT !.ops = Append(@, op)]

\* ---- the store ----------------------------------------------------------
Min(a, b) == IF a < b THEN a ELSE b

\* FindLimit without .limit(n)
FindLimit_Unbounded(coll, n) == coll

\* collection.find({}).limit(n).toArray(): the first n documents in natural order
FindLimit(coll, n) == SubSeq(coll, 1, Min(n, Len(coll)))

\* collection.findOne({ _id: id }): the first match, or nothing (null)
FindOneById(coll, id) ==
  LET hits == SelectSeq(coll, LAMBDA d : d._id = id)
  IN IF hits = <<>> THEN <<>> ELSE <<Head(hits)>>

\* the filter { movie_id: new ObjectId(idMovie) }
OfMovie(d, idMovie) == d.movie_id = ObjectId(idMovie)

\* FindByMovie with an empty filter
FindByMovie_Unfiltered(coll, idMovie) == coll

\* comments.find({ movie_id }).toArray()
FindByMovie(coll, idMovie) == SelectSeq(coll, LAMBDA d : OfMovie(d, idMovie))

\* the filter { _id: new ObjectId(idComment), movie_id: new ObjectId(idMovie) }
CommentFilter(d, idMovie, idComment) ==
  d._id = ObjectId(idComment) /\ d.movie_id = ObjectId(idMovie)

\* index of the first TRUE of a sequence of flags, 0 when there is none: the
\* first document a filter matches, in natural order
FirstIndex(flags) ==
  IF \E i \in 1..Len(flags) : flags[i]
    THEN CHOOSE i \in 1..Len(flags) : flags[i] /\ \A j \in 1..(i - 1) : ~flags[j]
    ELSE 0

\* index of the first document of coll that CommentFilter matches, 0 when none
FirstComment(coll, idMovie, idComment) ==
  FirstIndex([i \in 1..Len(coll) |-> CommentFilter(coll[i], idMovie, idComment)])

\* coll without its i-th document
RemoveAt(coll, i) == SubSeq(coll, 1, i - 1) \o SubSeq(coll, i + 1, Len(coll))

\* documents
Theater(i) == [_id |-> Oid(i)]
Embedded(c) == [_id |-> Oid(c), text |-> Str(0), updatedAt |-> Undef]
Movie(i, emb) == [_id |-> Oid(i), comments |-> emb]
Comment(c, m) == [_id |-> Oid(c), movie_id |-> Oid(m), text |-> Str(0), user |-> Str(0)]

\* sizes of the theaters and movies collections drawn by Init
CollectionSizes == {0, 1, Limit, MaxDocs}

\* the embedded comments array of length n: identifiers 1, 2, .., MaxId, 1, ..
\* (an embedded array does not keep identifiers unique)
EmbeddedArray(n) == [k \in 1..n |-> Embedded(((k - 1) % MaxId) + 1)]

\* which movie each Comment of the comments collection is under
Owners ==
  { [c \in 1..MaxId |-> 1], [c \in 1..MaxId |-> c], [c \in 1..MaxId |-> (c % MaxId) + 1] }

\* The store before the first request: theaters 1..n and movies 1..n, the
\* movies with an identifier seen on the wire carrying an embedded comments
\* array; and a comments collection 1..k with unique identifiers, each under
\* some movie.
Init ==
  /\ \E n \in CollectionSizes, e \in {0, MaxEmbedded} :
       /\ theaters = [i \in 1..n |-> Theater(i)]
       /\ movies = [i \in 1..n |-> Movie(i, IF i <= MaxId THEN EmbeddedArray(e) ELSE <<>>)]
  /\ \E k \in 0..MaxId, owner \in Owners :
       comments = [c \in 1..k |-> Comment(c, owner[c])]
  /\ req = [r \in {1} |-> Idle]
  /\ served = 0

\* ---- steps --------------------------------------------------------------
At(r, H, pc) == req[r].h \in H /\ req[r].pc = pc

\* a step of request r that leaves the store alone
Step(r, q) ==
  /\ req' = [req EXCEPT ![r] = q]
  /\ UNCHANGED <<theaters, movies, comments, served>>

\* the router calls handler h with the path parameters and the body; the
\* handler runs to its first await, which leaves it as q
CanInvoke(r) == req[r].pc = "idle" /\ served < MaxRequests

Invoke(r, q) ==
  /\ CanInvoke(r)
  /\ req' = [req EXCEPT ![r] = q]
  /\ served' = served + 1
  /\ UNCHANGED <<theaters, movies, comments>>

Fresh(h, idT, idM, idC, b) ==
  [Idle EXCEPT !.h = h, !.idTheater = idT, !.idMovie = idM, !.idComment = idC, !.body = b]

Awaiting(q, pc) == [q EXCEPT !.pc = pc]

\* await clientPromise rejects
ConnectFails(r) == Step(r, Throw(req[r], "store", ConnError))

\* an awaited store operation op rejects
OpFails(r, op) == Step(r, Throw(Issue(req[r], op), "store", OpError))

\* ---- GET /theaters, GET /movies -----------------------------------------
ListSteps(r, h, coll) ==
  \/ /\ CanInvoke(r)
     /\ Invoke(r, Awaiting(Fresh(h, EmptyStr, EmptyStr, EmptyStr, NoBody), "connect"))
  \/ /\ At(r, {h}, "connect")
     /\ \/ ConnectFails(r)
        \/ Step(r, Awaiting(req[r], "find"))
  \/ /\ At(r, {h}, "find")
     /\ \/ OpFails(r, "find")
        \/ Step(r, Return(Issue(req[r], "find"),
                          Json(h, Envelope(200, Absent, Absent, ArrayData(FindLimit(coll, Limit))))))

TheatersGET(r) == ListSteps(r, "TheatersGET", theaters)
MoviesGET(r) == ListSteps(r, "MoviesGET", movies)

\* ---- POST, PUT, DELETE /movies ------------------------------------------
\* MethodNotAllowed answering 404
MethodNotAllowed_NotFound(verb) ==
  Envelope(404, "Method Not Allowed", verb, NoData)

MethodNotAllowed(verb) ==
  Envelope(405, "Method Not Allowed", verb, NoData)

Refuse(r, h, verb) ==
  /\ CanInvoke(r)
  /\ \E b \in Bodies :
       Invoke(r, Return(Fresh(h, EmptyStr, EmptyStr, EmptyStr, b), Json(h, MethodNotAllowed(verb))))

MoviesPOST(r) == Refuse(r, "MoviesPOST", "POST method is not supported")
MoviesPUT(r) == Refuse(r, "MoviesPUT", "PUT method is not supported")
MoviesDELETE(r) == Refuse(r, "MoviesDELETE", "DELETE method is not supported")

\* ---- GET /theaters/{idTheater} ------------------------------------------
InvalidTheater(h) ==
  Envelope(400, IF h = "TheaterGET" THEN "Invalid Theaters ID" ELSE "Invalid theater ID",
           "ID format is incorrect", NoData)

TheaterNotFound(h) ==
  Envelope(404, "Theater not found",
           IF h = "TheaterGET" THEN "No Theater found with the given ID"
                               ELSE "No theater found with the given ID", NoData)

\* TheaterResult without the `if (!theater)` branch
TheaterResult_Unchecked(h, found) ==
  Envelope(200, Absent, Absent, [NoData EXCEPT !.kind = "theater", !.docs = found])

\* the handler after findOne resolved with found (nothing, or one Theater)
TheaterResult(h, found) ==
  IF found = <<>> THEN TheaterNotFound(h)
  ELSE Envelope(200, Absent, Absent, TheaterData(found[1]))

TheaterSteps(r, h) ==
  \/ /\ CanInvoke(r)
     /\ \E id \in Wire :
          Invoke(r, Awaiting(Fresh(h, id, EmptyStr, EmptyStr, NoBody), "connect"))
  \/ /\ At(r, {h}, "connect")
     /\ \/ ConnectFails(r)
        \/ Step(r, IF ~IsValid(req[r].idTheater)
                     THEN Return(req[r], Json(h, InvalidTheater(h)))
                     ELSE Awaiting(req[r], "findOne"))
  \/ /\ At(r, {h}, "findOne")
     /\ \/ OpFails(r, "findOne")
        \/ Step(r, Return(Issue(req[r], "findOne"),
                          Json(h, TheaterResult(h, FindOneById(theaters, ObjectId(req[r].idTheater))))))

TheaterGET(r) == TheaterSteps(r, "TheaterGET")
TheaterGET_v2(r) == TheaterSteps(r, "TheaterGET_v2")

\* ---- GET /movies/{idMovie}/comments -------------------------------------
InvalidMovie(err) == Envelope(400, "Invalid movie ID", err, NoData)

CommentsGET(r) ==
  \/ /\ CanInvoke(r)
     /\ \E id \in Wire :
          Invoke(r, Awaiting(Fresh("CommentsGET", EmptyStr, id, EmptyStr, NoBody), "connect"))
  \/ /\ At(r, {"CommentsGET"}, "connect")
     /\ \/ ConnectFails(r)
        \/ Step(r, IF ~IsValid(req[r].idMovie)
                     THEN Return(req[r], Json("CommentsGET", InvalidMovie("ID format is incorrect")))
                     ELSE Awaiting(req[r], "find"))
  \/ /\ At(r, {"CommentsGET"}, "find")
     /\ \/ OpFails(r, "find")
        \/ Step(r, Return(Issue(req[r], "find"),
                          Json("CommentsGET",
                               Envelope(200, Absent, Absent,
                                        CommentsData(FindByMovie(comments, req[r].idMovie))))))

\* ---- /movies/{idMovie}/comments/{idComment}: shared responses ------------
InvalidComment == Envelope(400, "Invalid comment ID", "Comment ID format is incorrect", NoData)
MovieNotFound == Envelope(404, "Movie not found", "No movie found with the given ID", NoData)
CommentNotFound ==
  Envelope(404, "Comment not found", "No comment found with the given ID for this movie", NoData)

\* ValidateIds with idComment tested before idMovie
ValidateIds_CommentFirst(idMovie, idComment) ==
  IF ~IsValid(idComment) THEN <<InvalidComment>>
  ELSE IF ~IsValid(idMovie) THEN <<InvalidMovie("Movie ID format is incorrect")>>
  ELSE <<>>

\* the two ObjectId.isValid tests of GET, DELETE and PUT (variant B), in order;
\* <<>> when both identifiers pass
ValidateIds(idMovie, idComment) ==
  IF ~IsValid(idMovie) THEN <<InvalidMovie("Movie ID format is incorrect")>>
  ELSE IF ~IsValid(idComment) THEN <<InvalidComment>>
  ELSE <<>>

\* after await clientPromise in GET and DELETE: validate, then look the movie up
AfterConnect(q) ==
  LET bad == ValidateIds(q.idMovie, q.idComment)
  IN IF bad # <<>> THEN Return(q, Json(q.h, bad[1])) ELSE Awaiting(q, "findMovie")

\* AfterFindMovie without the `if (!movie)` return
AfterFindMovie_NoReturn(q, next) == Awaiting(Issue(q, "findOne"), next)

\* after movies.findOne({ _id }) resolved: `if (!movie)`, else go on to next
AfterFindMovie(q, next) ==
  LET q1 == Issue(q, "findOne")
  IN IF FindOneById(movies, ObjectId(q.idMovie)) = <<>>
       THEN Return(q1, Json(q.h, MovieNotFound))
       ELSE Awaiting(q1, next)

\* ---- GET /movies/{idMovie}/comments/{idComment} -------------------------
\* comments.findOne({ _id, movie_id })
FindComment(coll, idMovie, idComment) ==
  LET hits == SelectSeq(coll, LAMBDA d : CommentFilter(d, idMovie, idComment))
  IN IF hits = <<>> THEN <<>> ELSE <<Head(hits)>>

\* comments.findOne resolved: the code to the end of GET
FindCommentResolves(r) ==
  LET found == FindComment(comments, req[r].idMovie, req[r].idComment)
  IN Step(r, Return(Issue(req[r], "findOne"),
                    Json(req[r].h, IF found = <<>> THEN CommentNotFound
                                   ELSE Envelope(200, Absent, Absent, CommentData(found[1])))))

ReadSteps(r, h) ==
  \/ /\ CanInvoke(r)
     /\ \E idM \in Wire, idC \in Wire :
          Invoke(r, Awaiting(Fresh(h, EmptyStr, idM, idC, NoBody), "connect"))
  \/ /\ At(r, {h}, "connect")
     /\ \/ ConnectFails(r)
        \/ Step(r, AfterConnect(req[r]))
  \/ /\ At(r, {h}, "findMovie")
     /\ \/ OpFails(r, "findOne")
        \/ Step(r, AfterFindMovie(req[r], "findComment"))
  \/ /\ At(r, {h}, "findComment")
     /\ \/ OpFails(r, "findOne")
        \/ FindCommentResolves(r)

CommentGET(r) == ReadSteps(r, "CommentGET")
CommentGET_v2(r) == ReadSteps(r, "CommentGET_v2")

\* ---- DELETE /movies/{idMovie}/comments/{idComment} ----------------------
\* DeleteOne with the filter { _id } alone
DeleteOne_ByIdOnly(coll, idMovie, idComment) ==
  LET i == FirstIndex([n \in 1..Len(coll) |-> coll[n]._id = ObjectId(idComment)])
  IN IF i = 0 THEN coll ELSE RemoveAt(coll, i)

\* comments.deleteOne({ _id, movie_id }): the collection afterwards
DeleteOne(coll, idMovie, idComment) ==
  LET i == FirstComment(coll, idMovie, idComment)
  IN IF i = 0 THEN coll ELSE RemoveAt(coll, i)

\* DeletedCount of a store that acknowledges without counting
DeletedCount_Acknowledged(coll, idMovie, idComment) == 1

\* result.deletedCount
DeletedCount(coll, idMovie, idComment) ==
  IF FirstComment(coll, idMovie, idComment) = 0 THEN 0 ELSE 1

\* comments.deleteOne resolved: the document is gone, the code runs to the end
\* of DELETE
DeleteOneResolves(r) ==
  /\ comments' = DeleteOne(comments, req[r].idMovie, req[r].idComment)
  /\ req' = [req EXCEPT ![r] =
       Return(Issue(@, "deleteOne"),
              Json(@.h, IF DeletedCount(comments, @.idMovie, @.idComment) = 0
                          THEN CommentNotFound
                          ELSE Envelope(200, "Comment deleted successfully", Absent, NoData)))]
  /\ UNCHANGED <<theaters, movies, served>>

DeleteSteps(r, h) ==
  \/ /\ CanInvoke(r)
     /\ \E idM \in Wire, idC \in Wire :
          Invoke(r, Awaiting(Fresh(h, EmptyStr, idM, idC, NoBody), "connect"))
  \/ /\ At(r, {h}, "connect")
     /\ \/ ConnectFails(r)
        \/ Step(r, AfterConnect(req[r]))
  \/ /\ At(r, {h}, "findMovie")
     /\ \/ OpFails(r, "findOne")
        \/ Step(r, AfterFindMovie(req[r], "deleteOne"))
  \/ /\ At(r, {h}, "deleteOne")
     /\ \/ OpFails(r, "deleteOne")
        \/ DeleteOneResolves(r)

CommentDELETE(r) == DeleteSteps(r, "CommentDELETE")
CommentDELETE_v2(r) == DeleteSteps(r, "CommentDELETE_v2")

\* ---- POST /movies/{idMovie}/comments/{idComment} --------------------------
\* `!idMovie || !idComment`, then the ObjectId.isValid tests; <<>> when they pass
CheckParams(idMovie, idComment) ==
  IF idMovie.len = 0 \/ idComment.len = 0
    THEN <<Envelope(400, "Movie ID and Comment ID are required", Absent, NoData)>>
  ELSE IF ~IsValid(idMovie) \/ ~IsValid(idComment)
    THEN <<Envelope(400, "Invalid ID format", Absent, NoData)>>
  ELSE <<>>

\* `!body || (!body.text && !body.user)`
LacksFields(b) == b.kind = "null" \/ (~Truthy(b.text) /\ ~Truthy(b.user))

\* { $set: body } applied to document d
ApplySet(d, b) ==
  [d EXCEPT !.text = IF b.text # Undef THEN b.text ELSE @,
            !.user = IF b.user # Undef THEN b.user ELSE @,
            !.movie_id = IF b.movie_id # Undef THEN b.movie_id ELSE @]

\* UpdateOne with the filter { _id } alone
UpdateOne_ByIdOnly(coll, idMovie, idComment, b) ==
  LET i == FirstIndex([n \in 1..Len(coll) |-> coll[n]._id = ObjectId(idComment)])
  IN IF i = 0 THEN coll ELSE [coll EXCEPT ![i] = ApplySet(@, b)]

\* comments.updateOne({ _id, movie_id }, { $set: body }): the collection afterwards
UpdateOne(coll, idMovie, idComment, b) ==
  LET i == FirstComment(coll, idMovie, idComment)
  IN IF i = 0 THEN coll ELSE [coll EXCEPT ![i] = ApplySet(@, b)]

\* result.matchedCount
MatchedCount(coll, idMovie, idComment) ==
  IF FirstComment(coll, idMovie, idComment) = 0 THEN 0 ELSE 1

\* the response after updateOne resolved
UpdateResult(q, before, after) ==
  IF MatchedCount(before, q.idMovie, q.idComment) = 0
    THEN Envelope(404, "Movie or comment not found", Absent, NoData)
    ELSE Envelope(200, "Comment updated successfully", Absent,
                  ModifiedData(after # before, q.idMovie, q.idComment))

\* POST called with the path parameters: the code up to `await request.json()`
OnRequest(h, idMovie, idComment, b) ==
  LET q == Fresh(h, EmptyStr, idMovie, idComment, b)
      bad == CheckParams(idMovie, idComment)
  IN IF bad # <<>> THEN Return(q, Json(h, bad[1])) ELSE Awaiting(q, "json")

\* request.json() settled: the code up to `await clientPromise`
AfterJson(q) ==
  IF q.body.kind = "malformed"
    THEN Throw(q, "input", SyntaxErrorMsg)
  ELSE IF LacksFields(q.body)
    THEN Return(q, Json(q.h, Envelope(400,
           "Request body must contain at least text or user field", Absent, NoData)))
  ELSE Awaiting(q, "connect")

\* updateOne resolved: the code to the end of POST
AfterUpdateOne(q, before, after) ==
  Return(Issue(q, "updateOne"), Json(q.h, UpdateResult(q, before, after)))

UpdateSteps(r, h) ==
  \/ /\ CanInvoke(r)
     /\ \E idM \in Wire, idC \in Wire, b \in Bodies : Invoke(r, OnRequest(h, idM, idC, b))
  \/ /\ At(r, {h}, "json")
     /\ Step(r, AfterJson(req[r]))
  \/ /\ At(r, {h}, "connect")
     /\ \/ ConnectFails(r)
        \/ Step(r, Awaiting(req[r], "updateOne"))
  \/ /\ At(r, {h}, "updateOne")
     /\ \/ OpFails(r, "updateOne")
        \/ /\ comments' = UpdateOne(comments, req[r].idMovie, req[r].idComment, req[r].body)
           /\ req' = [req EXCEPT ![r] = AfterUpdateOne(@, comments, comments')]
           /\ UNCHANGED <<theaters, movies, served>>

CommentPOST(r) == UpdateSteps(r, "CommentPOST")
CommentPOST_v2(r) == UpdateSteps(r, "CommentPOST_v2")

\* ---- PUT (variant A) /movies/{idMovie}/comments/{idComment} -------------
\* `!idMovie || !idComment`, then the ObjectId.isValid tests of PUT
PutCheckParams(idMovie, idComment) ==
  IF idMovie.len = 0 \/ idComment.len = 0
    THEN <<Envelope(400, "Movie ID and Comment ID are required", Absent, NoData)>>
  ELSE IF ~IsValid(idMovie) \/ ~IsValid(idComment)
    THEN <<Envelope(400, "Invalid ID format", Absent, NoData)>>
  ELSE <<>>

\* PutLacksFields asking for text alone
PutLacksFields_TextOnly(b) == b.kind = "null" \/ ~Truthy(b.text)

\* `!body || (!body.text && !body.user)` of PUT
PutLacksFields(b) == b.kind = "null" \/ (~Truthy(b.text) /\ ~Truthy(b.user))

\* the response of PUT after updateOne resolved
PutResult(q, before, after) ==
  IF MatchedCount(before, q.idMovie, q.idComment) = 0
    THEN Envelope(404, "Movie or comment not found", Absent, NoData)
    ELSE Envelope(200, "Comment updated successfully", Absent,
                  ModifiedData(after # before, q.idMovie, q.idComment))

\* PUT called with the path parameters: the code up to `await request.json()`
PutOnRequest(idMovie, idComment, b) ==
  LET q == Fresh("CommentPUT_A", EmptyStr, idMovie, idComment, b)
      bad == PutCheckParams(idMovie, idComment)
  IN IF bad # <<>> THEN Return(q, Json("CommentPUT_A", bad[1])) ELSE Awaiting(q, "json")

\* request.json() settled: the code up to `await clientPromise`
PutAfterJson(q) ==
  IF q.body.kind = "malformed"
    THEN Throw(q, "input", SyntaxErrorMsg)
  ELSE IF PutLacksFields(q.body)
    THEN Return(q, Json("CommentPUT_A", Envelope(400,
           "Request body must contain at least text or user field", Absent, NoData)))
  ELSE Awaiting(q, "connect")

\* updateOne resolved: the code to the end of PUT
PutAfterUpdateOne(q, before, after) ==
  Return(Issue(q, "updateOne"), Json("CommentPUT_A", PutResult(q, before, after)))

CommentPUT_A(r) ==
  \/ /\ CanInvoke(r)
     /\ \E idM \in Wire, idC \in Wire, b \in Bodies : Invoke(r, PutOnRequest(idM, idC, b))
  \/ /\ At(r, {"CommentPUT_A"}, "json")
     /\ Step(r, PutAfterJson(req[r]))
  \/ /\ At(r, {"CommentPUT_A"}, "connect")
     /\ \/ ConnectFails(r)
        \/ Step(r, Awaiting(req[r], "updateOne"))
  \/ /\ At(r, {"CommentPUT_A"}, "updateOne")
     /\ \/ OpFails(r, "updateOne")
        \/ /\ comments' = UpdateOne(comments, req[r].idMovie, req[r].idComment, req[r].body)
           /\ req' = [req EXCEPT ![r] = PutAfterUpdateOne(@, comments, comments')]
           /\ UNCHANGED <<theaters, movies, served>>

\* ---- PUT (variant B) /movies/{idMovie}/comments/{idComment} -------------
\* the filter { _id: idMovie, 'comments._id': idComment } on a Movie
EmbeddedFilter(m, idMovie, idComment) ==
  /\ m._id = ObjectId(idMovie)
  /\ \E k \in 1..Len(m.comments) : m.comments[k]._id = ObjectId(idComment)

\* SetPositional writing every element that matches (comments.$[e]) instead
\* of the first
SetPositional_AllMatching(arr, idComment, text, now) ==
  [k \in 1..Len(arr) |->
     IF arr[k]._id = ObjectId(idComment)
       THEN [arr[k] EXCEPT !.text = text, !.updatedAt = now]
       ELSE arr[k]]

\* $set 'comments.$.text' and 'comments.$.updatedAt': the positional operator
\* is the first element of the array that matches the filter
SetPositional(arr, idComment, text, now) ==
  LET k == FirstIndex([n \in 1..Len(arr) |-> arr[n]._id = ObjectId(idComment)])
  IN [arr EXCEPT ![k] = [@ EXCEPT !.text = text, !.updatedAt = now]]

\* movies.updateOne(filter, $set): the collection afterwards
UpdateEmbedded(coll, idMovie, idComment, text, now) ==
  LET i == FirstIndex([n \in 1..Len(coll) |-> EmbeddedFilter(coll[n], idMovie, idComment)])
  IN IF i = 0 THEN coll
     ELSE [coll EXCEPT ![i].comments = SetPositional(@, idComment, text, now)]

\* new Date(): the clock ticks with every request received
Now == DateVal(served)

\* the code between `await request.json()` and the updateOne call
AfterJsonB(q) ==
  LET bad == ValidateIds(q.idMovie, q.idComment)
  IN IF q.body.kind = "malformed" THEN Throw(q, "input", SyntaxErrorMsg)
     ELSE IF bad # <<>> THEN Return(q, Json(q.h, bad[1]))
     ELSE IF q.body.kind = "null" THEN Throw(q, "input", TypeErrorMsg)
     ELSE IF ~Truthy(q.body.text) \/ q.body.text.t # "str"
       THEN Return(q, Json(q.h, Envelope(400, "Invalid input",
                                "Comment text is required and must be a string", NoData)))
     ELSE Awaiting(q, "updateOne")

\* the response after updateOne resolved
EmbeddedResult(q, before) ==
  IF FirstIndex([i \in 1..Len(before) |-> EmbeddedFilter(before[i], q.idMovie, q.idComment)]) = 0
    THEN Envelope(404, "Movie or comment not found",
                  "No matching movie or comment with the given IDs", NoData)
    ELSE Envelope(200, "Comment updated successfully", Absent, NoData)

CommentPUT_B(r) ==
  \/ /\ CanInvoke(r)
     /\ \E idM \in Wire, idC \in Wire, b \in Bodies :
          Invoke(r, Awaiting(Fresh("CommentPUT_B", EmptyStr, idM, idC, b), "connect"))
  \/ /\ At(r, {"CommentPUT_B"}, "connect")
     /\ \/ ConnectFails(r)
        \/ Step(r, Awaiting(req[r], "json"))
  \/ /\ At(r, {"CommentPUT_B"}, "json")
     /\ Step(r, AfterJsonB(req[r]))
  \/ /\ At(r, {"CommentPUT_B"}, "updateOne")
     /\ \/ OpFails(r, "updateOne")
        \/ /\ movies' = UpdateEmbedded(movies, req[r].idMovie, req[r].idComment,
                                      req[r].body.text, Now)
           /\ req' = [req EXCEPT ![r] =
                Return(Issue(@, "updateOne"), Json("CommentPUT_B", EmbeddedResult(@, movies)))]
           /\ UNCHANGED <<theaters, comments, served>>

\* ---- the response is sent; the slot serves the next request -------------
Release(r) ==
  /\ req[r].pc = "done"
  /\ Step(r, Idle)

Next ==
  \E r \in DOMAIN req :
    \/ TheatersGET(r)
    \/ MoviesGET(r)
    \/ MoviesPOST(r)
    \/ MoviesPUT(r)
    \/ MoviesDELETE(r)
    \/ TheaterGET(r)
    \/ TheaterGET_v2(r)
    \/ CommentsGET(r)
    \/ CommentGET(r)
    \/ CommentGET_v2(r)
    \/ CommentDELETE(r)
    \/ CommentDELETE_v2(r)
    \/ CommentPOST(r)
    \/ CommentPOST_v2(r)
    \/ CommentPUT_A(r)
    \/ CommentPUT_B(r)
    \/ Release(r)

Spec == Init /\ [][Next]_vars

\* ---- concurrent GET and DELETE on single comments ------------------------
\* The runtime handles up to MaxClients requests together; each runs from one
\* await to the next and the store serves one operation at a time. Movies
\* 1..MaxId are stored, and Comment c under Movie c; request paths name these
\* pairs. The connection and the store operations resolve.
InitConc ==
  /\ theaters = <<>>
  /\ movies = [i \in 1..MaxId |-> Movie(i, <<>>)]
  /\ comments = [c \in 1..MaxId |-> Comment(c, c)]
  /\ req = [r \in 1..MaxClients |-> Idle]
  /\ served = 0

\* the file that serves the path: route.ts, or the variant of part_002
RouteFile(h) == IF h \in TransportHandlers THEN "part_002" ELSE "route.ts"

\* the requests arrive one after the other: request r is the r-th received;
\* one file serves the path in a deployment
Arrives(r) ==
  /\ req[r].pc = "idle" /\ r = served + 1
  /\ \E h \in ReadHandlers \cup DeleteHandlers, c \in 1..MaxId :
       /\ \A s \in DOMAIN req : req[s].pc # "idle" => RouteFile(req[s].h) = RouteFile(h)
       /\ req' = [req EXCEPT ![r] =
                    Awaiting(Fresh(h, EmptyStr, HexStr(c), HexStr(c), NoBody), "connect")]
  /\ served' = served + 1
  /\ UNCHANGED <<theaters, movies, comments>>

Connects(r) ==
  /\ At(r, ReadHandlers \cup DeleteHandlers, "connect")
  /\ Step(r, AfterConnect(req[r]))

ReadFindsMovie(r) ==
  /\ At(r, ReadHandlers, "findMovie")
  /\ Step(r, AfterFindMovie(req[r], "findComment"))

DeleteFindsMovie(r) ==
  /\ At(r, DeleteHandlers, "findMovie")
  /\ Step(r, AfterFindMovie(req[r], "deleteOne"))

ReadFindsComment(r) ==
  /\ At(r, ReadHandlers, "findComment")
  /\ FindCommentResolves(r)

Deletes(r) ==
  /\ At(r, DeleteHandlers, "deleteOne")
  /\ DeleteOneResolves(r)

NextConc ==
  \E r \in DOMAIN req :
    \/ Arrives(r)
    \/ Connects(r)
    \/ ReadFindsMovie(r)
    \/ DeleteFindsMovie(r)
    \/ ReadFindsComment(r)
    \/ Deletes(r)

SpecConc == InitConc /\ [][NextConc]_vars

\* ==== properties ==========================================================
Done(r) == req[r].pc = "done"

\* the request ended in its last step
Ends(r) == req[r].pc # "done" /\ req'[r].pc = "done"

\* the connection and every store operation of the request resolved
StoreUp(q) == q.fault # "store"

BothValid(q) == IsValid(q.idMovie) /\ IsValid(q.idComment)

\* a path identifier of the request is not a canonical identifier
BadPath(q) ==
  \/ q.h \in TheaterHandlers /\ ~IsValid(q.idTheater)
  \/ q.h = "CommentsGET" /\ ~IsValid(q.idMovie)
  \/ q.h \in CommentHandlers /\ ~BothValid(q)

\* C1: on every identifier-taking endpoint, a request with a path identifier
\* that is not a canonical identifier is answered with body status 400, and
\* no store operation was issued for it, whatever its body is (the store
\* connection being available).
C1_BadIdGives400 ==
  \A r \in DOMAIN req :
    (Done(r) /\ BadPath(req[r]) /\ StoreUp(req[r]))
      => (req[r].resp.status = 400 /\ req[r].ops = <<>>)

\* C2: a DELETE with two well-formed identifiers that names a Comment stored
\* under another movie leaves that Comment in the comments collection, and
\* ends with status 404, whether or not the Movie exists (the store
\* operations resolving).
C2_CrossMovieDelete ==
  [][\A r \in DOMAIN req : \A i \in 1..Len(comments) :
       (/\ req[r].h \in DeleteHandlers
        /\ BothValid(req[r])
        /\ comments[i]._id = Oid(req[r].idComment.v)
        /\ comments[i].movie_id # Oid(req[r].idMovie.v))
       => /\ \E j \in 1..Len(comments') : comments'[j] = comments[i]
          /\ (Ends(r) /\ StoreUp(req'[r])) => req'[r].resp.status = 404]_vars

\* C2 witness: a DELETE answered 404 "Comment not found" (the Movie exists,
\* deleteOne ran) while the Comment it names is stored under another movie
C2_Witness ==
  \E r \in DOMAIN req :
    /\ Done(r) /\ req[r].h \in DeleteHandlers
    /\ req[r].resp.status = 404 /\ req[r].resp.message = "Comment not found"
    /\ req[r].ops = <<"findOne", "deleteOne">>
    /\ \E i \in 1..Len(comments) :
         /\ comments[i]._id = Oid(req[r].idComment.v)
         /\ comments[i].movie_id # Oid(req[r].idMovie.v)

LacksRequired(q) ==
  \/ /\ q.h \in UpdateHandlers
     /\ q.body.kind \in {"null", "object"}
     /\ q.body.text = Undef /\ q.body.user = Undef
  \/ /\ q.h = "CommentPUT_B"
     /\ q.body.kind \in {"null", "object"}
     /\ q.body.text.t # "str"

\* C4: POST, PUT (variant A) and PUT (variant B) with well-formed identifiers
\* and a body that lacks the required field (JSON null and the empty object
\* included) end with status 400 and no store operation issued.
C4_MissingFieldGives400 ==
  \A r \in DOMAIN req :
    (Done(r) /\ BothValid(req[r]) /\ LacksRequired(req[r]) /\ StoreUp(req[r]))
      => (req[r].resp.status = 400 /\ req[r].ops = <<>>)

\* C5: PUT (variant B) with well-formed identifiers and a non-empty string
\* text, on a Movie idMovie whose embedded array has an element idComment,
\* changes the text and updatedAt of one such element and nothing else: the
\* sibling elements, the other Movies, the comments and theaters collections
\* are unchanged; the response is 200 "Comment updated successfully", no data.
C5_EmbeddedFrame ==
  [][\A r \in DOMAIN req : \A i \in 1..Len(movies) :
       (/\ req[r].h = "CommentPUT_B" /\ req[r].pc = "updateOne"
        /\ Ends(r) /\ StoreUp(req'[r])
        /\ BothValid(req[r])
        /\ req[r].body.kind = "object" /\ req[r].body.text.t = "str" /\ req[r].body.text.v # 0
        /\ movies[i]._id = Oid(req[r].idMovie.v)
        /\ \E k \in 1..Len(movies[i].comments) :
             movies[i].comments[k]._id = Oid(req[r].idComment.v))
       => /\ comments' = comments /\ theaters' = theaters
          /\ Len(movies') = Len(movies)
          /\ \A j \in 1..Len(movies) : j # i => movies'[j] = movies[j]
          /\ movies'[i]._id = movies[i]._id
          /\ Len(movies'[i].comments) = Len(movies[i].comments)
          /\ \E k \in 1..Len(movies[i].comments) :
               /\ movies[i].comments[k]._id = Oid(req[r].idComment.v)
               /\ movies'[i].comments[k] =
                    [_id |-> movies[i].comments[k]._id,
                     text |-> req[r].body.text,
                     updatedAt |-> DateVal(served)]
               /\ \A l \in 1..Len(movies[i].comments) :
                    l # k => movies'[i].comments[l] = movies[i].comments[l]
          /\ req'[r].resp.status = 200
          /\ req'[r].resp.message = "Comment updated successfully"
          /\ req'[r].resp.data.kind = "none"]_vars

\* C5 witness: a PUT (variant B) answered 200 after updateOne, the Movie now
\* holding the new text in the named element next to an untouched sibling
\* with the same identifier
C5_Witness ==
  \E r \in DOMAIN req : \E i \in 1..Len(movies) :
    /\ Done(r) /\ req[r].h = "CommentPUT_B" /\ req[r].resp.status = 200
    /\ req[r].ops = <<"updateOne">>
    /\ movies[i]._id = Oid(req[r].idMovie.v)
    /\ \E k, l \in 1..Len(movies[i].comments) :
         /\ k # l
         /\ movies[i].comments[k]._id = Oid(req[r].idComment.v)
         /\ movies[i].comments[l]._id = Oid(req[r].idComment.v)
         /\ movies[i].comments[k].text = req[r].body.text
         /\ movies[i].comments[k].updatedAt.t = "date"
         /\ movies[i].comments[l].updatedAt = Undef

\* the elements of a sequence
Range(s) == {s[i] : i \in 1..Len(s)}

C7_TheaterById ==
  \A r \in DOMAIN req :
    (Done(r) /\ req[r].h \in TheaterHandlers)
      => LET id == req[r].idTheater
             hits == {d \in Range(theaters) : d._id = Oid(id.v)}
         IN req[r].resp.status =
              (IF ~StoreUp(req[r]) THEN 500
               ELSE IF ~(id.len = HexIdLength /\ id.hex) THEN 400
               ELSE IF hits = {} THEN 404 ELSE 200)
            /\ (req[r].resp.status = 404 => req[r].resp.data.kind = "none")
            /\ (req[r].resp.status = 200
                  => /\ req[r].resp.data.kind = "theater"
                     /\ req[r].resp.data.docs[1] \in hits)

\* C7 witness: a well-formed identifier of no Theater answered 404 without
\* data by the second variant, the theaters collection not being empty
C7_Witness ==
  \E r \in DOMAIN req :
    /\ Done(r) /\ req[r].h = "TheaterGET_v2" /\ req[r].ops = <<"findOne">>
    /\ theaters # <<>>
    /\ req[r].resp.status = 404 /\ req[r].resp.data.kind = "none"

\* C8: POST, PUT and DELETE on /movies are answered with body status 405
\* whatever the body and the store are, issue no store operation and leave
\* the three collections unchanged.
C8_MethodNotAllowed ==
  [][\A r \in DOMAIN req :
       (req[r].h \in RefusedHandlers \/ req'[r].h \in RefusedHandlers)
       => /\ UNCHANGED <<theaters, movies, comments>>
          /\ req'[r].h \in RefusedHandlers
               => /\ req'[r].pc = "done"
                  /\ req'[r].resp.status = 405
                  /\ req'[r].ops = <<>>]_vars

\* C8 witness: PUT /movies with a body that POST on a Comment would accept,
\* answered 405 on a store that holds movies
C8_Witness ==
  \E r \in DOMAIN req :
    /\ Done(r) /\ req[r].h = "MoviesPUT" /\ req[r].resp.status = 405
    /\ req[r].body.text = Str(1) /\ movies # <<>>

\* the collection a list handler reads
Listed(h) == IF h = "TheatersGET" THEN theaters ELSE movies

\* C9: GET /theaters and GET /movies are answered 200 with a data array of
\* exactly min(10, n) documents of the collection, none twice, n being the
\* size of the collection (the store operations resolving).
C9_ListLimit ==
  \A r \in DOMAIN req :
    (Done(r) /\ req[r].h \in ListHandlers /\ StoreUp(req[r]))
      => LET docs == req[r].resp.data.docs
             n == Len(Listed(req[r].h))
         IN /\ req[r].resp.status = 200
            /\ req[r].resp.data.kind = "array"
            /\ Len(docs) = (IF n > 10 THEN 10 ELSE n)
            /\ Range(docs) \subseteq Range(Listed(req[r].h))
            /\ Cardinality(Range(docs)) = Len(docs)

\* C9 witness: GET /theaters on a collection of more than 10 Theaters
\* answered with 10 of them
C9_Witness ==
  \E r \in DOMAIN req :
    /\ Done(r) /\ req[r].h = "TheatersGET" /\ req[r].ops = <<"find">>
    /\ Len(theaters) > 10 /\ Len(req[r].resp.data.docs) = 10

\* handlers that access the store
StoreHandlers == Handlers \ RefusedHandlers

\* the store operations a request of handler h has issued when one of them
\* throws, each operation of the handler being issued at most once
OpsUntilFailure(h) ==
  CASE h \in ListHandlers \cup {"CommentsGET"} -> {<<"find">>}
    [] h \in TheaterHandlers -> {<<"findOne">>}
    [] h \in ReadHandlers -> {<<"findOne">>, <<"findOne", "findOne">>}
    [] h \in DeleteHandlers -> {<<"findOne">>, <<"findOne", "deleteOne">>}
    [] OTHER -> {<<"updateOne">>}

\* C10: when the connection or a store operation of a request throws, the
\* request has ended with one response of body status 500 whose error is the
\* exception's message; no operation was issued twice and nothing is issued
\* after the exception.
C10_StoreFailure ==
  /\ [](\A r \in DOMAIN req :
          /\ req[r].nresp = (IF Done(r) THEN 1 ELSE 0)
          /\ req[r].fault = "store"
               => /\ req[r].h \in StoreHandlers
                  /\ Done(r)
                  /\ req[r].resp.status = 500
                  /\ req[r].thrown \in {ConnError, OpError}
                  /\ req[r].resp.error = req[r].thrown
                  /\ req[r].thrown = ConnError => req[r].ops = <<>>
                  /\ req[r].thrown = OpError => req[r].ops \in OpsUntilFailure(req[r].h))
  /\ [][\A r \in DOMAIN req :
          req[r].fault = "store" => (req'[r] = req[r] \/ req'[r] = Idle)]_vars

\* C10 witness: GET /movies ended 500 with the message of the exception that
\* find threw
C10_Witness ==
  \E r \in DOMAIN req :
    /\ Done(r) /\ req[r].h = "MoviesGET" /\ req[r].fault = "store"
    /\ req[r].ops = <<"find">> /\ req[r].resp.status = 500
    /\ req[r].resp.error = OpError

\* the request passes the input validation of its handler
Validated(q) ==
  CASE q.h \in ListHandlers -> TRUE
    [] q.h \in TheaterHandlers -> IsValid(q.idTheater)
    [] q.h = "CommentsGET" -> IsValid(q.idMovie)
    [] q.h \in ReadHandlers \cup DeleteHandlers -> BothValid(q)
    [] q.h \in UpdateHandlers ->
         BothValid(q) /\ q.body.kind = "object" /\ (Truthy(q.body.text) \/ Truthy(q.body.user))
    [] q.h = "CommentPUT_B" ->
         BothValid(q) /\ q.body.kind = "object" /\ Truthy(q.body.text) /\ q.body.text.t = "str"
    [] OTHER -> FALSE

\* a Movie with the identifier idMovie is in the movies collection
MovieExists(idMovie) == \E i \in 1..Len(movies) : movies[i]._id = Oid(idMovie.v)

\* C11 as stated: every request of a store-accessing handler that passes
\* input validation has issued exactly one store operation when it responds
\* (the store operations resolving).
C11_ExactlyOneOperation ==
  \A r \in DOMAIN req :
    (Done(r) /\ req[r].h \in StoreHandlers /\ Validated(req[r]) /\ StoreUp(req[r]))
      => Len(req[r].ops) = 1

\* C11 amended: such a request has issued exactly one store operation, except
\* GET and DELETE on /movies/{idMovie}/comments/{idComment}: they issue the
\* findOne on movies and, only when the Movie exists, a second operation
\* (findOne, deleteOne) on comments.
C11_OneOrTwoOperations ==
  \A r \in DOMAIN req :
    (Done(r) /\ req[r].h \in StoreHandlers /\ Validated(req[r]) /\ StoreUp(req[r]))
      => IF req[r].h \in ReadHandlers \cup DeleteHandlers
           THEN IF MovieExists(req[r].idMovie)
                  THEN req[r].ops = <<"findOne",
                                      IF req[r].h \in ReadHandlers THEN "findOne" ELSE "deleteOne">>
                  ELSE req[r].ops = <<"findOne">> /\ req[r].resp.message = "Movie not found"
           ELSE Len(req[r].ops) = 1

\* C11 witness: a DELETE answered 200 after findOne on movies and deleteOne
\* on comments
C11_Witness ==
  \E r \in DOMAIN req :
    /\ Done(r) /\ req[r].h = "CommentDELETE" /\ req[r].resp.status = 200
    /\ req[r].ops = <<"findOne", "deleteOne">>


\* C12 as stated: a POST with well-formed identifiers and a body containing
\* text or user, for an idMovie that no Movie has, ends with status 404 and
\* leaves the comments collection as it was, also when a Comment idComment
\* with movie_id idMovie is stored (the store operations resolving).
C12_PostWithoutMovieGives404 ==
  [][\A r \in DOMAIN req :
       (/\ req[r].h \in {"CommentPOST", "CommentPOST_v2"}
        /\ Ends(r) /\ Validated(req[r]) /\ StoreUp(req'[r])
        /\ ~MovieExists(req[r].idMovie))
         => (req'[r].resp.status = 404 /\ comments' = comments)]_vars


\* the status and message of the response
Answers(q, status, message) == q.resp.status = status /\ q.resp.message = message

\* C13: the step that ends a GET or DELETE on one comment (the store
\* operations resolving) answers by the first failing check, in this order:
\* invalid idMovie -> 400 'Invalid movie ID' (whatever idComment), invalid
\* idComment -> 400 'Invalid comment ID', both with no store operation; no
\* Movie idMovie -> 404 'Movie not found' with the movie findOne as the only
\* operation and the comments collection untouched; no Comment idComment under
\* idMovie -> 404 'Comment not found'; only otherwise status 200.
C13_ChecksInOrder ==
  [][\A r \in DOMAIN req :
       (req[r].h \in ReadHandlers \cup DeleteHandlers /\ Ends(r) /\ StoreUp(req'[r]))
         => LET q == req'[r]
            IN IF ~IsValid(q.idMovie)
                 THEN Answers(q, 400, "Invalid movie ID") /\ q.ops = <<>> /\ comments' = comments
               ELSE IF ~IsValid(q.idComment)
                 THEN Answers(q, 400, "Invalid comment ID") /\ q.ops = <<>> /\ comments' = comments
               ELSE IF ~MovieExists(q.idMovie)
                 THEN /\ Answers(q, 404, "Movie not found")
                      /\ q.ops = <<"findOne">> /\ comments' = comments
               ELSE IF ~\E i \in 1..Len(comments) :
                          /\ comments[i]._id = Oid(q.idComment.v)
                          /\ comments[i].movie_id = Oid(q.idMovie.v)
                 THEN Answers(q, 404, "Comment not found") /\ comments' = comments
               ELSE q.resp.status = 200]_vars

\* C13 witness: a GET or DELETE with both identifiers malformed was answered
\* 'Invalid movie ID'
C13_Witness ==
  \E r \in DOMAIN req :
    /\ Done(r) /\ req[r].h \in ReadHandlers \cup DeleteHandlers
    /\ ~IsValid(req[r].idMovie) /\ ~IsValid(req[r].idComment)
    /\ Answers(req[r], 400, "Invalid movie ID")


\* two request states agree on everything but the handler's name and the
\* transport status: position, response body, operations issued, exception
SameButHandler(a, b) ==
  /\ a.pc = b.pc /\ a.idMovie = b.idMovie /\ a.idComment = b.idComment /\ a.body = b.body
  /\ a.resp.status = b.resp.status /\ a.resp.message = b.resp.message
  /\ a.resp.error = b.resp.error /\ a.resp.data = b.resp.data
  /\ a.nresp = b.nresp /\ a.ops = b.ops /\ a.thrown = b.thrown /\ a.fault = b.fault

PostHandlers == {"CommentPOST", "CommentPOST_v2"}

\* C14: every step of a PUT (variant A) request is the step that POST takes
\* from the same store, with the same path identifiers and the same body, at
\* the same position: the same response body (status, message, data) or the
\* same await comes next, and the comments collection afterwards is the one
\* POST leaves. Hence from the same store and the same request both end with
\* the same body status and data and the same store.
C14_PutStepsAsPost ==
  [][\A r \in DOMAIN req :
       (req'[r].h = "CommentPUT_A" /\ req'[r] # req[r])
         => \A h \in PostHandlers :
              LET p == [req[r] EXCEPT !.h = h]
                  q == req'[r]
              IN CASE req[r].pc = "idle" ->
                        /\ SameButHandler(q, OnRequest(h, q.idMovie, q.idComment, q.body))
                        /\ comments' = comments
                   [] req[r].pc = "json" ->
                        SameButHandler(q, AfterJson(p)) /\ comments' = comments
                   [] req[r].pc = "connect" ->
                        /\ \/ SameButHandler(q, Throw(p, "store", ConnError))
                           \/ SameButHandler(q, Awaiting(p, "updateOne"))
                        /\ comments' = comments
                   [] req[r].pc = "updateOne" ->
                        \/ /\ SameButHandler(q, Throw(Issue(p, "updateOne"), "store", OpError))
                           /\ comments' = comments
                        \/ /\ comments' = UpdateOne(comments, p.idMovie, p.idComment, p.body)
                           /\ SameButHandler(q, AfterUpdateOne(p, comments, comments'))
                   [] OTHER -> FALSE]_vars

\* C14 witness: a PUT (variant A) was answered 200 with the data payload
\* {modified, idMovie, idComment} for a body that carries user and no text
C14_Witness ==
  \E r \in DOMAIN req :
    /\ Done(r) /\ req[r].h = "CommentPUT_A"
    /\ req[r].resp.status = 200 /\ req[r].resp.data.kind = "modified"
    /\ ~Truthy(req[r].body.text) /\ Truthy(req[r].body.user)


\* documents a and b differ at most in text and user
SameButTextAndUser(a, b) == [a EXCEPT !.text = b.text, !.user = b.user] = b

\* C15 as stated: the step that ends a POST or PUT (variant A) with status 200
\* leaves every Comment as it was except for text and user (movie_id and the
\* other fields stay), adds or removes none, and leaves the other collections
\* alone, whatever fields the accepted body carries.
C15_OnlyTextAndUser ==
  [][\A r \in DOMAIN req :
       (req[r].h \in UpdateHandlers /\ Ends(r) /\ req'[r].resp.status = 200)
         => /\ Len(comments') = Len(comments)
            /\ \A i \in 1..Len(comments) : SameButTextAndUser(comments[i], comments'[i])
            /\ movies' = movies /\ theaters' = theaters]_vars


\* the DELETE requests for the pair (c, c) that have responded
DeletesDone(c) ==
  { r \in DOMAIN req : /\ Done(r) /\ req[r].h \in DeleteHandlers
                       /\ req[r].idMovie = HexStr(c) /\ req[r].idComment = HexStr(c) }

\* C16: under SpecConc (requests interleaved at their awaits, no store
\* exception), for every stored pair (idMovie, idComment): once any DELETE for
\* it has responded, exactly one of the DELETEs that responded has status 200,
\* every other has 404 'Comment not found', and the Comment is absent; and a
\* GET for the pair whose last step comes after a DELETE for it responded is
\* answered 404 'Comment not found'.
C16_OneDeleteWins ==
  /\ [](\A c \in 1..MaxId :
          DeletesDone(c) # {}
            => /\ \E w \in DeletesDone(c) :
                    /\ req[w].resp.status = 200
                    /\ \A r \in DeletesDone(c) \ {w} : Answers(req[r], 404, "Comment not found")
               /\ \A i \in 1..Len(comments) : comments[i]._id # Oid(c))
  /\ [][\A r \in DOMAIN req :
          (/\ req[r].h \in ReadHandlers /\ Ends(r)
           /\ req[r].idMovie = req[r].idComment
           /\ DeletesDone(req[r].idComment.v) # {})
            => Answers(req'[r], 404, "Comment not found")]_vars

\* C16 witness: of two DELETEs for the same pair one was answered 200 and the
\* other, after its own movie lookup and deleteOne, 404 'Comment not found',
\* and a GET for the pair was answered 404
C16_Witness ==
  \E c \in 1..MaxId : \E w \in DeletesDone(c), l \in DeletesDone(c), g \in DOMAIN req :
    /\ w # l
    /\ req[w].resp.status = 200
    /\ Answers(req[l], 404, "Comment not found") /\ req[l].ops = <<"findOne", "deleteOne">>
    /\ Done(g) /\ req[g].h \in ReadHandlers /\ req[g].idComment = HexStr(c)
    /\ Answers(req[g], 404, "Comment not found")

====
